---- MODULE Spec2Model ----
(***************************************************************************)
(* A model of the NextBus web services wrapper (lib/next-bus.js): the      *)
(* promise-returning operations of class NextBus, the response callbacks   *)
(* they hand to request.get, and the shape of the documents pixl-xml       *)
(* parses out of the XML feed.                                             *)
(*                                                                         *)
(* The operations are those of the current class; the one operation that   *)
(* only the earlier class has, getRouteStopPredictionsByDirection, is      *)
(* modelled from that class.                                               *)
(*                                                                         *)
(* One behaviour follows one invocation on NextBus.Instance: the call      *)
(* issues its request, the response callback runs, and - for the           *)
(* operations built on getRouteInfo - the handler given to .then() runs.   *)
(***************************************************************************)
EXTENDS Integers, Sequences, FiniteSets, TLC

(***************************************************************************)
(* Bounds of the documents the service answers with.                       *)
(***************************************************************************)
MaxAgencies == 2
MaxRoutes == 2
MaxStops == 2
MaxDirs == 2
MaxRefs == 2
MaxPaths == 2
MaxPDirs == 2
MaxPreds == 2

AgencyTags == {"sf-muni", "actransit"}
RouteTags == {"N", "21"}
StopTags == {"5240", "5650"}
\* A direction may name a stop that the master list of the route lacks.
RefTags == StopTags \cup {"6997"}
DirTags == {"OB", "IB"}

(***************************************************************************)
(* JavaScript values.  Every value is a record whose `kind` names its      *)
(* type; objects carry their properties, arrays their items.               *)
(***************************************************************************)
Undefined == [kind |-> "undefined"]
Null == [kind |-> "null"]
Str(s) == [kind |-> "string", str |-> s]
Obj(f) == [kind |-> "object", fields |-> f]
Arr(s) == [kind |-> "array", items |-> s]
Err(m) == [kind |-> "error", name |-> m]

IsArray(v) == v.kind = "array"
\* !v
Falsy(v) ==
  \/ v.kind \in {"undefined", "null"}
  \/ (v.kind = "string" /\ v.str = "")
  \/ (v.kind = "number" /\ v.num = 0)
\* v.k throws a TypeError exactly when v is undefined or null.
CanRead(v) == v.kind \notin {"undefined", "null"}
\* v.k, for a v that can be read.
Prop(v, k) ==
  IF v.kind = "object"
    THEN IF k \in DOMAIN v.fields THEN v.fields[k] ELSE Undefined
    ELSE Undefined
\* a === b, for the strings the code compares (tags); undefined === s is false.
StrictEq(a, b) == a.kind = "string" /\ b.kind = "string" /\ a.str = b.str

(***************************************************************************)
(* XML elements and pixl-xml's parse.  An element has a name, attributes   *)
(* and child elements.  parse() returns the content of the root element:   *)
(* attributes become string properties; the children of one name become    *)
(* one property, holding the child itself when there is one and an array   *)
(* when there are several; a name with no child is no property at all.     *)
(***************************************************************************)
El(n, a, c) == [name |-> n, attrs |-> a, children |-> c]
NoAttrs == <<>>

RECURSIVE ParseElement(_)
ParseElement(el) ==
  LET names == {el.children[i].name : i \in DOMAIN el.children}
      kids(n) == SelectSeq(el.children, LAMBDA c : c.name = n)
      parsed(n) == [i \in 1..Len(kids(n)) |-> ParseElement(kids(n)[i])]
  IN  IF DOMAIN el.attrs = {} /\ Len(el.children) = 0
        THEN Str("")
        ELSE Obj([k \in (DOMAIN el.attrs) \cup names |->
                    IF k \in names
                      THEN IF Len(kids(k)) = 1 THEN parsed(k)[1] ELSE Arr(parsed(k))
                      ELSE Str(el.attrs[k])])

\* A response body: well-formed XML with a root element, or text that is not.
XmlBody(root) == [wellFormed |-> TRUE, root |-> root]
Malformed == [wellFormed |-> FALSE]

(***************************************************************************)
(* The documents of the feed, one family per command.                      *)
(***************************************************************************)
SeqsUpTo(S, n) == UNION {[1..k -> S] : k \in 0..n}
\* Sequences of records with a tag, no tag twice (tags are keys in the feed).
UniqueTags(s) == \A i, j \in DOMAIN s : i # j => s[i].tag # s[j].tag

BodyEl(children) == El("body", [copyright |-> "All data copyright agencies listed below and NextBus Inc."], children)

AgencyEl(t) == El("agency", [tag |-> t, title |-> t], <<>>)
AgencyBodies ==
  {XmlBody(BodyEl([i \in 1..Len(s) |-> AgencyEl(s[i])])) : s \in SeqsUpTo(AgencyTags, MaxAgencies)}

RouteEl(t) == El("route", [tag |-> t, title |-> t], <<>>)
RouteBodies ==
  {XmlBody(BodyEl([i \in 1..Len(s) |-> RouteEl(s[i])])) : s \in SeqsUpTo(RouteTags, MaxRoutes)}

\* routeConfig: at most one <route>, holding the master <stop> list, the
\* <direction>s with their <stop tag=.../> references, and the <path>s.
StopEl(t) == El("stop", [tag |-> t, title |-> t], <<>>)
StopRefEl(t) == El("stop", [tag |-> t], <<>>)
DirectionEl(d) ==
  El("direction", [tag |-> d.tag, title |-> d.tag],
     [i \in 1..Len(d.refs) |-> StopRefEl(d.refs[i])])
PathEl == El("path", NoAttrs, <<El("point", [lat |-> "37.7", lon |-> "-122.4"], <<>>)>>)

StopLists == {s \in SeqsUpTo([tag : StopTags], MaxStops) : UniqueTags(s)}
RefLists == SeqsUpTo(RefTags, MaxRefs)
DirectionLists ==
  {s \in SeqsUpTo([tag : DirTags, refs : RefLists], MaxDirs) : UniqueTags(s)}

RouteConfigEl(stops, dirs, paths) ==
  El("route", [tag |-> "N", title |-> "N-Judah"],
     [i \in 1..Len(stops) |-> StopEl(stops[i].tag)]
       \o [i \in 1..Len(dirs) |-> DirectionEl(dirs[i])]
       \o [i \in 1..paths |-> PathEl])
RouteConfigBodies ==
  {XmlBody(BodyEl(<<>>))} \cup
  {XmlBody(BodyEl(<<RouteConfigEl(stops, dirs, paths)>>)) :
     stops \in StopLists, dirs \in DirectionLists, paths \in 0..MaxPaths}

\* predictions: at most one <predictions>, holding <direction>s that hold
\* <prediction>s.  A document is given by the dirTag of each prediction of
\* each direction; a prediction's minutes is its place in the document.
RECURSIVE Before(_, _)
Before(pd, i) == IF i = 1 THEN 0 ELSE Before(pd, i - 1) + Len(pd[i - 1])
PredictionEl(d, m) == El("prediction", [minutes |-> ToString(m), dirTag |-> d], <<>>)
PDirectionEl(pd, i) ==
  El("direction", [title |-> "Direction"],
     [j \in 1..Len(pd[i]) |-> PredictionEl(pd[i][j], Before(pd, i) + j)])
PredictionShapes == SeqsUpTo(SeqsUpTo(DirTags, MaxPreds), MaxPDirs)
PredictionsEl(pd) ==
  El("predictions", [routeTag |-> "N", stopTag |-> "5240"],
     [i \in 1..Len(pd) |-> PDirectionEl(pd, i)])
PredictionBodies ==
  {XmlBody(BodyEl(<<>>))} \cup
  {XmlBody(BodyEl(<<PredictionsEl(pd)>>)) : pd \in PredictionShapes}

(***************************************************************************)
(* What request hands to the response callback: (err, httpResponse, body). *)
(* A failed request has err alone; a completed one has a status and a body.*)
(***************************************************************************)
HTTP_OK == 200
ErrorStatuses == {404, 500}
Num(n) == [kind |-> "number", num |-> n]
\* (no body comes with a failed request; none is read)
NetworkError == [err |-> Err("ECONNRESET"), httpResponse |-> Undefined, body |-> Malformed]
HttpResponse(status, body) ==
  [err |-> Null, httpResponse |-> Obj([statusCode |-> Num(status)]), body |-> body]
Responses(bodies) ==
  {NetworkError}
    \cup {HttpResponse(st, Malformed) : st \in ErrorStatuses}
    \cup {HttpResponse(HTTP_OK, b) : b \in bodies \cup {Malformed}}

\* httpResponse.statusCode === 200
StatusIsOk(httpResponse) ==
  LET code == Prop(httpResponse, "statusCode")
  IN  code.kind = "number" /\ code.num = HTTP_OK

(***************************************************************************)
(* What running a callback does: it calls resolve or reject, or an         *)
(* exception leaves it.                                                    *)
(***************************************************************************)
Resolve(v) == [act |-> "resolve", value |-> v]
Reject(v) == [act |-> "reject", value |-> v]
Throw(e) == [act |-> "throw", value |-> e]
TypeError == Err("TypeError")
\* parser.parse(body) throws on text that is not well-formed XML.
ParseError == Err("XMLParseError")
SomethingWentWrong == Str("Something went wrong")
DirectionNotFound == Str("Direction not found")

(***************************************************************************)
(* The response callbacks of class NextBus.                                *)
(***************************************************************************)
\* getAgencies: (err, httpResponse, body) => { ... resolve(doc.agency) ... }
getAgenciesCallback(r) ==
  IF ~Falsy(r.err) THEN Reject(r.err)
  ELSE IF StatusIsOk(r.httpResponse)
    THEN IF ~r.body.wellFormed THEN Throw(ParseError)
         ELSE LET doc == ParseElement(r.body.root)
              IN  Resolve(Prop(doc, "agency"))
    ELSE Reject(SomethingWentWrong)

\* getRoutes: (err, httpResponse, body) => { ... resolve(doc.route) ... }
getRoutesCallback(r) ==
  IF ~Falsy(r.err) THEN Reject(r.err)
  ELSE IF StatusIsOk(r.httpResponse)
    THEN IF ~r.body.wellFormed THEN Throw(ParseError)
         ELSE LET doc == ParseElement(r.body.root)
              IN  Resolve(Prop(doc, "route"))
    ELSE Reject(SomethingWentWrong)

\* getRouteInfo: (err, httpResponse, body) => { ... resolve(doc.route) ... }
getRouteInfoCallback(r) ==
  IF ~Falsy(r.err) THEN Reject(r.err)
  ELSE IF StatusIsOk(r.httpResponse)
    THEN IF ~r.body.wellFormed THEN Throw(ParseError)
         ELSE LET doc == ParseElement(r.body.root)
                  info == Prop(doc, "route")
              IN  Resolve(info)
    ELSE Reject(SomethingWentWrong)

\* The callback without its test that predictions exist: it reads
\* doc.predictions.direction.prediction whatever the document holds.
getRouteStopPredictionsCallback_Unguarded(r) ==
  IF ~Falsy(r.err) THEN Reject(r.err)
  ELSE IF StatusIsOk(r.httpResponse)
    THEN IF ~r.body.wellFormed THEN Throw(ParseError)
         ELSE LET doc == ParseElement(r.body.root)
                  predictions == Prop(doc, "predictions")
              IN  IF ~CanRead(predictions) \/ ~CanRead(Prop(predictions, "direction"))
                    THEN Throw(TypeError)
                    ELSE Resolve(Prop(Prop(predictions, "direction"), "prediction"))
    ELSE Reject(SomethingWentWrong)

\* getRouteStopPredictions: resolves with doc.predictions.direction.prediction
\* when doc.predictions && doc.predictions.direction, and with [] otherwise.
getRouteStopPredictionsCallback(r) ==
  IF ~Falsy(r.err) THEN Reject(r.err)
  ELSE IF StatusIsOk(r.httpResponse)
    THEN IF ~r.body.wellFormed THEN Throw(ParseError)
         ELSE LET doc == ParseElement(r.body.root)
                  predictions == Prop(doc, "predictions")
              IN  IF ~Falsy(predictions) /\ ~Falsy(Prop(predictions, "direction"))
                    THEN Resolve(Prop(Prop(predictions, "direction"), "prediction"))
                    ELSE Resolve(Arr(<<>>))
    ELSE Reject(SomethingWentWrong)

\* The scan of one <direction> that pushes a lone prediction without
\* comparing its dirTag.
DirectionPredictions_LoneUnfiltered(direction, tag) ==
  LET dPredictions == Prop(direction, "prediction")
  IN  IF IsArray(dPredictions)
        THEN [throws |-> FALSE,
              items |-> SelectSeq(dPredictions.items,
                                  LAMBDA p : StrictEq(Prop(p, "dirTag"), tag))]
        ELSE IF ~CanRead(dPredictions)
          THEN [throws |-> TRUE, items |-> <<>>]
          ELSE [throws |-> FALSE, items |-> <<dPredictions>>]

\* The predictions one <direction> adds to the result, or the TypeError of
\* reading dirTag of an absent prediction:
\*   if (Array.isArray(dPredictions)) { dPredictions.forEach(... push ...) }
\*   else { if (dPredictions.dirTag === options.direction) push }
DirectionPredictions(direction, tag) ==
  LET dPredictions == Prop(direction, "prediction")
  IN  IF IsArray(dPredictions)
        THEN [throws |-> FALSE,
              items |-> SelectSeq(dPredictions.items,
                                  LAMBDA p : StrictEq(Prop(p, "dirTag"), tag))]
        ELSE IF ~CanRead(dPredictions)
          THEN [throws |-> TRUE, items |-> <<>>]
          ELSE [throws |-> FALSE,
                items |-> IF StrictEq(Prop(dPredictions, "dirTag"), tag)
                            THEN <<dPredictions>> ELSE <<>>]

\* doc.predictions.direction.forEach(direction => ...), from the i-th on.
RECURSIVE ForEachDirection(_, _, _)
ForEachDirection(directions, i, tag) ==
  IF i > Len(directions) THEN [throws |-> FALSE, items |-> <<>>]
  ELSE LET head == DirectionPredictions(directions[i], tag)
           rest == ForEachDirection(directions, i + 1, tag)
       IN  IF head.throws THEN head
           ELSE [throws |-> rest.throws, items |-> head.items \o rest.items]

\* getRouteStopPredictionsByDirection: no test of err; the predictions of
\* every direction whose dirTag is options.direction.
getRouteStopPredictionsByDirectionCallback(r, options) ==
  IF ~CanRead(r.httpResponse) THEN Throw(TypeError)
  ELSE IF StatusIsOk(r.httpResponse)
    THEN IF ~r.body.wellFormed THEN Throw(ParseError)
         ELSE LET doc == ParseElement(r.body.root)
                  predictions == Prop(doc, "predictions")
              IN  IF ~CanRead(predictions) THEN Throw(TypeError)
                  ELSE LET direction == Prop(predictions, "direction")
                           found == IF IsArray(direction)
                                      THEN ForEachDirection(direction.items, 1, options.direction)
                                      ELSE DirectionPredictions(direction, options.direction)
                       IN  IF Falsy(direction) THEN Resolve(Arr(<<>>))
                           ELSE IF found.throws THEN Throw(TypeError)
                           ELSE Resolve(Arr(found.items))
    ELSE Reject(r.err)

(***************************************************************************)
(* The handlers the derived operations give to getRouteInfo(...).then().   *)
(***************************************************************************)
\* v.length
Length(v) == IF IsArray(v) THEN Num(Len(v.items)) ELSE Prop(v, "length")
\* The number of turns of for (i = 0, len = v.length; i < len; i++): none
\* when len is undefined.
Turns(v) == IF Length(v).kind = "number" THEN Length(v).num ELSE 0
\* v[i], i from 1.
At(v, i) == IF IsArray(v) THEN v.items[i] ELSE Undefined

\* for (...) { if (list[i].tag === tag) { found = list[i]; break; } }
RECURSIVE FirstWithTag(_, _, _)
FirstWithTag(list, tag, i) ==
  IF i > Turns(list) THEN Undefined
  ELSE IF StrictEq(Prop(At(list, i), "tag"), tag) THEN At(list, i)
  ELSE FirstWithTag(list, tag, i + 1)

\* getRouteStops: info => { resolve(info.stop); }
getRouteStopsThen(info) ==
  IF ~CanRead(info) THEN Throw(TypeError) ELSE Resolve(Prop(info, "stop"))

\* getRouteDirections: info => { resolve(info.direction); }
getRouteDirectionsThen(info) ==
  IF ~CanRead(info) THEN Throw(TypeError) ELSE Resolve(Prop(info, "direction"))

\* getRouteStopsByDirection: info => { scan info.direction; reject when no
\* direction has the tag; resolve(direction.stop.map(stop => master stop)) }
getRouteStopsByDirectionThen(info, options) ==
  IF ~CanRead(info) \/ ~CanRead(Prop(info, "direction")) THEN Throw(TypeError)
  ELSE LET direction == FirstWithTag(Prop(info, "direction"), options.direction, 1)
       IN  IF Falsy(direction) THEN Reject(DirectionNotFound)
           ELSE IF ~IsArray(Prop(direction, "stop")) THEN Throw(TypeError)
           ELSE IF ~CanRead(Prop(info, "stop")) THEN Throw(TypeError)
           ELSE Resolve(Arr([j \in 1..Len(Prop(direction, "stop").items) |->
                               FirstWithTag(Prop(info, "stop"),
                                            Prop(Prop(direction, "stop").items[j], "tag"), 1)]))

(***************************************************************************)
(* The state of one invocation.                                            *)
(***************************************************************************)
VARIABLES
  op,        \* the operation invoked on NextBus.Instance, "none" before
  options,   \* its options argument
  requests,  \* the query strings handed to request.get, in order
  response,  \* what the response callback was called with
  inner,     \* the promise of the getRouteInfo a derived operation calls
  promise,   \* the promise the operation returned
  thrown,    \* the exceptions that left a callback or a handler
  reacted,   \* whether the handler given to .then() has run
  statics,   \* NextBus.WEB_SERVICES_URI, .Commands, .Attr and .Instance
  calls,     \* the invocations in flight together, when several are followed
  cli        \* the run of bin/cli.js, when it is the one followed

call == <<op, options, requests, response, inner, promise, thrown, reacted>>
vars == <<op, options, requests, response, inner, promise, thrown, reacted,
          statics, calls, cli>>

\* The arguments callers pass.
AgencyArgs == {"sf-muni"}
RouteArgs == {"N"}
StopArgs == {"5240"}
DirectionArgs == DirTags

Options(a, r, s, d) == [agency |-> a, route |-> r, stop |-> s, direction |-> d]

\* NextBus.Commands and NextBus.Attr
AGENCY_LIST == "agencyList"
ROUTE_LIST == "routeList"
ROUTE_INFO == "routeConfig"
ROUTE_PREDICTIONS == "predictions"

\* The static members of class NextBus and the instance the module exports.
StaticConfiguration ==
  [WEB_SERVICES_URI |-> "http://webservices.nextbus.com/service/publicXMLFeed",
   Commands |-> [AGENCY_LIST |-> AGENCY_LIST, ROUTE_LIST |-> ROUTE_LIST,
                 ROUTE_INFO |-> ROUTE_INFO, ROUTE_PREDICTIONS |-> ROUTE_PREDICTIONS],
   Attr |-> [COMMAND |-> "command", AGENCY |-> "a", ROUTE |-> "r", STOP |-> "s"],
   Instance |-> Obj(<<>>)]

Pending == [state |-> "pending", value |-> Undefined]
NoPromise == [state |-> "none", value |-> Undefined]
NoResponse == [delivered |-> FALSE]
Delivered(r) == [delivered |-> TRUE, err |-> r.err, httpResponse |-> r.httpResponse, body |-> r.body]

\* resolve(v) and reject(v) settle a pending promise and do nothing to a
\* settled one; an exception leaves the promise as it is.
Settle(p, outcome) ==
  IF p.state # "pending" \/ outcome.act = "throw" THEN p
  ELSE [state |-> IF outcome.act = "resolve" THEN "resolved" ELSE "rejected",
        value |-> outcome.value]
Raised(outcome) == IF outcome.act = "throw" THEN <<outcome.value>> ELSE <<>>

DerivedOps == {"getRouteStops", "getRouteStopsByDirection", "getRouteDirections"}

\* No operation invoked yet.
NoCall ==
  /\ op = "none"
  /\ options = Options(Undefined, Undefined, Undefined, Undefined)
  /\ requests = <<>>
  /\ response = NoResponse
  /\ inner = NoPromise
  /\ promise = NoPromise
  /\ thrown = <<>>
  /\ reacted = FALSE
NoCalls == <<>>
NoCli == [pc |-> "none"]

Init ==
  /\ NoCall
  /\ statics = StaticConfiguration
  /\ calls = NoCalls
  /\ cli = NoCli

\* A derived operation that fetched the route once for its directions and
\* once more for its stops.
Invoke_FetchesTwice(name, opts, qs, derived) ==
  /\ op' = name
  /\ options' = opts
  /\ requests' = IF derived THEN requests \o <<qs, qs>> ELSE Append(requests, qs)
  /\ promise' = Pending
  /\ inner' = IF derived THEN Pending ELSE NoPromise
  /\ UNCHANGED <<response, thrown, reacted, statics, calls, cli>>

\* An operation is invoked on a fresh call (op = "none"): new Promise(...)
\* whose executor calls request.get(WEB_SERVICES_URI, {qs})
Invoke(name, opts, qs, derived) ==
  /\ op' = name
  /\ options' = opts
  /\ requests' = Append(requests, qs)
  /\ promise' = Pending
  /\ inner' = IF derived THEN Pending ELSE NoPromise
  /\ UNCHANGED <<response, thrown, reacted, statics, calls, cli>>

\* qs of getRouteInfo(options)
\* (Before it: a query string that passes the direction on as well.)
RouteInfoQs_WithDirection(opts) ==
  [command |-> ROUTE_INFO, a |-> opts.agency, r |-> opts.route, d |-> opts.direction]
RouteInfoQs(opts) == [command |-> ROUTE_INFO, a |-> opts.agency, r |-> opts.route]
PredictionsQs(opts) ==
  [command |-> ROUTE_PREDICTIONS, a |-> opts.agency, r |-> opts.route, s |-> opts.stop]

getAgencies ==
  /\ op = "none"
  /\ Invoke("getAgencies", Options(Undefined, Undefined, Undefined, Undefined),
            [command |-> AGENCY_LIST], FALSE)

getRoutes ==
  /\ op = "none"
  /\ \E a \in AgencyArgs :
       Invoke("getRoutes", Options(Str(a), Undefined, Undefined, Undefined),
              [command |-> ROUTE_LIST, a |-> Str(a)], FALSE)

getRouteInfo ==
  /\ op = "none"
  /\ \E a \in AgencyArgs, r \in RouteArgs :
       LET opts == Options(Str(a), Str(r), Undefined, Undefined)
       IN  Invoke("getRouteInfo", opts, RouteInfoQs(opts), FALSE)

getRouteStops ==
  /\ op = "none"
  /\ \E a \in AgencyArgs, r \in RouteArgs :
       LET opts == Options(Str(a), Str(r), Undefined, Undefined)
       IN  Invoke("getRouteStops", opts, RouteInfoQs(opts), TRUE)

getRouteStopsByDirection ==
  /\ op = "none"
  /\ \E a \in AgencyArgs, r \in RouteArgs, d \in DirectionArgs :
       LET opts == Options(Str(a), Str(r), Undefined, Str(d))
       IN  Invoke("getRouteStopsByDirection", opts, RouteInfoQs(opts), TRUE)

getRouteDirections ==
  /\ op = "none"
  /\ \E a \in AgencyArgs, r \in RouteArgs :
       LET opts == Options(Str(a), Str(r), Undefined, Undefined)
       IN  Invoke("getRouteDirections", opts, RouteInfoQs(opts), TRUE)

getRouteStopPredictions ==
  /\ op = "none"
  /\ \E a \in AgencyArgs, r \in RouteArgs, st \in StopArgs :
       LET opts == Options(Str(a), Str(r), Str(st), Undefined)
       IN  Invoke("getRouteStopPredictions", opts, PredictionsQs(opts), FALSE)

getRouteStopPredictionsByDirection ==
  /\ op = "none"
  /\ \E a \in AgencyArgs, r \in RouteArgs, st \in StopArgs, d \in DirectionArgs :
       LET opts == Options(Str(a), Str(r), Str(st), Str(d))
       IN  Invoke("getRouteStopPredictionsByDirection", opts, PredictionsQs(opts), FALSE)

\* request calls the callback of the request in flight, once.
Awaiting(name) == op = name /\ ~response.delivered

\* The callback settles the promise made by the operation that issued the
\* request.
Respond(r, outcome) ==
  /\ response' = Delivered(r)
  /\ promise' = Settle(promise, outcome)
  /\ thrown' = thrown \o Raised(outcome)
  /\ UNCHANGED <<op, options, requests, inner, reacted, statics, calls, cli>>

onAgencies ==
  /\ Awaiting("getAgencies")
  /\ \E r \in Responses(AgencyBodies) : Respond(r, getAgenciesCallback(r))

onRoutes ==
  /\ Awaiting("getRoutes")
  /\ \E r \in Responses(RouteBodies) : Respond(r, getRoutesCallback(r))

onRouteInfo ==
  /\ Awaiting("getRouteInfo")
  /\ \E r \in Responses(RouteConfigBodies) : Respond(r, getRouteInfoCallback(r))

onPredictions ==
  /\ Awaiting("getRouteStopPredictions")
  /\ \E r \in Responses(PredictionBodies) :
       Respond(r, getRouteStopPredictionsCallback(r))

onPredictionsByDirection ==
  /\ Awaiting("getRouteStopPredictionsByDirection")
  /\ \E r \in Responses(PredictionBodies) :
       Respond(r, getRouteStopPredictionsByDirectionCallback(r, options))

\* The callback of the getRouteInfo a derived operation called settles the
\* inner promise.
onDerivedRouteInfo ==
  /\ op \in DerivedOps
  /\ ~response.delivered
  /\ \E r \in Responses(RouteConfigBodies) :
       /\ response' = Delivered(r)
       /\ inner' = Settle(inner, getRouteInfoCallback(r))
       /\ thrown' = thrown \o Raised(getRouteInfoCallback(r))
       /\ UNCHANGED <<op, options, requests, promise, reacted, statics, calls, cli>>

\* this.getRouteInfo(options).then(onFulfilled, reject): once the inner
\* promise is settled, one of the two runs, once.
Reactable(name) == op = name /\ inner.state \in {"resolved", "rejected"} /\ ~reacted
React(outcome) ==
  /\ reacted' = TRUE
  /\ promise' = Settle(promise, outcome)
  /\ thrown' = thrown \o Raised(outcome)
  /\ UNCHANGED <<op, options, requests, response, inner, statics, calls, cli>>

thenRouteStops ==
  /\ Reactable("getRouteStops")
  /\ React(IF inner.state = "resolved" THEN getRouteStopsThen(inner.value)
           ELSE Reject(inner.value))

\* then(onFulfilled) alone, its handler given whatever getRouteInfo settled
\* with.
thenRouteStopsByDirection_ScansFailure ==
  /\ Reactable("getRouteStopsByDirection")
  /\ React(getRouteStopsByDirectionThen(inner.value, options))

thenRouteStopsByDirection ==
  /\ Reactable("getRouteStopsByDirection")
  /\ React(IF inner.state = "resolved" THEN getRouteStopsByDirectionThen(inner.value, options)
           ELSE Reject(inner.value))

thenRouteDirections ==
  /\ Reactable("getRouteDirections")
  /\ React(IF inner.state = "resolved" THEN getRouteDirectionsThen(inner.value)
           ELSE Reject(inner.value))

Next ==
  \/ getAgencies
  \/ getRoutes
  \/ getRouteInfo
  \/ getRouteStops
  \/ getRouteStopsByDirection
  \/ getRouteDirections
  \/ getRouteStopPredictions
  \/ getRouteStopPredictionsByDirection
  \/ onAgencies
  \/ onRoutes
  \/ onRouteInfo
  \/ onPredictions
  \/ onPredictionsByDirection
  \/ onDerivedRouteInfo
  \/ thenRouteStops
  \/ thenRouteStopsByDirection
  \/ thenRouteDirections

Spec == Init /\ [][Next]_vars

(***************************************************************************)
(* The properties.  What a document holds is read off the XML elements of  *)
(* the response body, not off the parsed document.                         *)
(***************************************************************************)
\* The response is an HTTP 200 with a well-formed body.
GotDocument ==
  /\ response.delivered
  /\ Falsy(response.err)
  /\ StatusIsOk(response.httpResponse)
  /\ response.body.wellFormed
\* The child elements called n of element el, in document order.
Children(el, n) == SelectSeq(el.children, LAMBDA c : c.name = n)
\* The entities (objects) of a sequence of elements.
Entities(els) == [i \in 1..Len(els) |-> ParseElement(els[i])]
Root == response.body.root
\* The operation has run to its end: its callback, and its handler if it
\* has one that could run.
Resolved == promise.state = "resolved"
Rejected == promise.state = "rejected"

\* C1: getAgencies and getRoutes resolve, for every document, with the
\* sequence of the document's agency (route) entries in document order:
\* empty when there is none, of one element when there is one.
C1_ListsAreSequences ==
  /\ (op = "getAgencies" /\ GotDocument) =>
       /\ Resolved
       /\ IsArray(promise.value)
       /\ promise.value.items = Entities(Children(Root, "agency"))
  /\ (op = "getRoutes" /\ GotDocument) =>
       /\ Resolved
       /\ IsArray(promise.value)
       /\ promise.value.items = Entities(Children(Root, "route"))

\* The <route> of a routeConfig document, and what it holds.
HasRoute == GotDocument /\ Len(Children(Root, "route")) = 1
RouteOf == Children(Root, "route")[1]
MasterStops == Children(RouteOf, "stop")
Directions == Children(RouteOf, "direction")
Paths == Children(RouteOf, "path")
\* The directions of the route that carry the requested tag.
Tagged(els, t) == SelectSeq(els, LAMBDA e : e.attrs.tag = t)
Matched == Tagged(Directions, options.direction.str)
StopRefs == Children(Matched[1], "stop")
AllRefsMatch ==
  \A i \in 1..Len(StopRefs) : Len(Tagged(MasterStops, StopRefs[i].attrs.tag)) = 1
\* getRouteStopsByDirection has had its route detail and run its handler.
ScannedDirections == op = "getRouteStopsByDirection" /\ HasRoute /\ reacted

\* C2: when a direction of the route carries the requested tag and every
\* stop reference of it matches a master stop, getRouteStopsByDirection
\* resolves with the master stops the references name, one per reference,
\* in the order of the references.
C2_StopsOfDirection ==
  (ScannedDirections /\ Len(Matched) > 0 /\ AllRefsMatch) =>
    /\ Resolved
    /\ IsArray(promise.value)
    /\ promise.value.items =
         [i \in 1..Len(StopRefs) |->
            ParseElement(Tagged(MasterStops, StopRefs[i].attrs.tag)[1])]

\* C3: when no direction of the route carries the requested tag (the route
\* may have no direction at all), getRouteStopsByDirection is rejected with
\* the direction-not-found error.
C3_DirectionNotFound ==
  (ScannedDirections /\ Len(Matched) = 0) =>
    Rejected /\ promise.value = DirectionNotFound

\* The error the design names for a stop reference that no master stop has.
DataConsistencyError == Err("DataConsistencyError")
SomeRefUnmatched ==
  \E i \in 1..Len(StopRefs) : Len(Tagged(MasterStops, StopRefs[i].attrs.tag)) = 0
HasUndefinedItem(v) ==
  IsArray(v) /\ \E i \in 1..Len(v.items) : v.items[i].kind = "undefined"

\* A route on which the scans of getRouteStopsByDirection have sequences to
\* run over: several directions, several references, several master stops.
SeveralOfEach == Len(Directions) > 1 /\ Len(StopRefs) > 1 /\ Len(MasterStops) > 1

\* C4: when the matched direction references a stop tag that no master stop
\* has, getRouteStopsByDirection is rejected with the data-consistency
\* error (stated for routes with several directions, references and master
\* stops), and it does not resolve with a sequence that has an undefined
\* entry.
C4_UnmatchedStopFails ==
  /\ (ScannedDirections /\ Len(Matched) > 0 /\ SomeRefUnmatched /\ SeveralOfEach) =>
       Rejected /\ promise.value = DataConsistencyError
  /\ (ScannedDirections /\ Len(Matched) > 0 /\ SomeRefUnmatched /\ Resolved) =>
       ~HasUndefinedItem(promise.value)

\* The <predictions> of a predictions document, and what it holds.
PredictionsEls == Children(Root, "predictions")
PDirections == IF Len(PredictionsEls) = 0 THEN <<>> ELSE Children(PredictionsEls[1], "direction")
RECURSIVE AllPredictionsFrom(_)
AllPredictionsFrom(i) ==
  IF i > Len(PDirections) THEN <<>>
  ELSE Entities(Children(PDirections[i], "prediction")) \o AllPredictionsFrom(i + 1)
\* Every prediction of every direction, in document order.
AllPredictions == AllPredictionsFrom(1)
EveryDirectionPredicts ==
  \A i \in 1..Len(PDirections) : Len(Children(PDirections[i], "prediction")) > 0

\* C5: on a 200 whose document has no predictions.direction,
\* getRouteStopPredictions resolves with the empty sequence.
C5_NoPredictionsIsEmpty ==
  (op = "getRouteStopPredictions" /\ GotDocument /\ Len(PDirections) = 0) =>
    Resolved /\ promise.value = Arr(<<>>)
\* ... reached with a <predictions> element that has no <direction>.
C5_Witness ==
  /\ op = "getRouteStopPredictions" /\ GotDocument
  /\ Len(PredictionsEls) = 1 /\ Len(PDirections) = 0
  /\ Resolved /\ promise.value = Arr(<<>>)

\* C6: getRouteStopPredictions resolves with every prediction of every
\* direction of the document in one sequence, in document order, whether
\* there is one direction or several, each with one prediction or several.
C6_AllPredictionsFlat ==
  (op = "getRouteStopPredictions" /\ GotDocument
     /\ Len(PDirections) > 0 /\ EveryDirectionPredicts) =>
    /\ Resolved
    /\ IsArray(promise.value)
    /\ promise.value.items = AllPredictions

\* The predictions whose dirTag is the requested direction.
OfRequestedDirection ==
  SelectSeq(AllPredictions, LAMBDA p : p.fields.dirTag = options.direction)

\* C7: getRouteStopPredictionsByDirection resolves with exactly the
\* predictions whose dirTag is the requested tag, in document order, for
\* one or several directions with one or several predictions each; with
\* the empty sequence when none has the tag.
C7_PredictionsOfDirection ==
  (op = "getRouteStopPredictionsByDirection" /\ GotDocument
     /\ Len(PredictionsEls) = 1 /\ EveryDirectionPredicts) =>
    /\ Resolved
    /\ IsArray(promise.value)
    /\ promise.value.items = OfRequestedDirection
\* ... reached with several directions of which the request keeps some
\* predictions and drops others.
C7_Witness ==
  /\ op = "getRouteStopPredictionsByDirection" /\ GotDocument
  /\ Len(PDirections) > 1 /\ EveryDirectionPredicts
  /\ Resolved /\ IsArray(promise.value)
  /\ Len(promise.value.items) > 0
  /\ Len(promise.value.items) < Len(AllPredictions)

\* v.k is the sequence of the entities of els.
HoldsSequence(v, k, els) ==
  /\ CanRead(v)
  /\ IsArray(Prop(v, k))
  /\ Prop(v, k).items = Entities(els)

\* C8: getRouteInfo resolves with a route whose stops, directions and paths
\* are each the sequence of the document's entries, of length 1 when the
\* document has a single <stop>, <direction> or <path>; getRouteStops and
\* getRouteDirections resolve with those same sequences.
C8_RouteDetailSequences ==
  /\ (op = "getRouteInfo" /\ HasRoute) =>
       /\ Resolved
       /\ HoldsSequence(promise.value, "stop", MasterStops)
       /\ HoldsSequence(promise.value, "direction", Directions)
       /\ HoldsSequence(promise.value, "path", Paths)
  /\ (op = "getRouteStops" /\ HasRoute /\ reacted) =>
       /\ Resolved
       /\ IsArray(promise.value)
       /\ promise.value.items = Entities(MasterStops)
  /\ (op = "getRouteDirections" /\ HasRoute /\ reacted) =>
       /\ Resolved
       /\ IsArray(promise.value)
       /\ promise.value.items = Entities(Directions)

\* The operations that hand request.get a callback of their own.
RequestingOps ==
  {"getAgencies", "getRoutes", "getRouteInfo", "getRouteStopPredictions",
   "getRouteStopPredictionsByDirection"}
\* The request failed: a network error, or a status other than 200.
RequestFailed ==
  /\ response.delivered
  /\ ~Falsy(response.err) \/ ~StatusIsOk(response.httpResponse)

\* C9: when the request fails, every requesting operation is rejected, with
\* the error of the request when there is one and with a message otherwise.
C9_FailureRejects ==
  (op \in RequestingOps /\ RequestFailed) =>
    /\ Rejected
    /\ IF ~Falsy(response.err)
         THEN promise.value = response.err
         ELSE promise.value.kind = "string" /\ promise.value.str # ""

\* The response is an HTTP 200 whose body is not well-formed XML.
GotMalformed ==
  /\ response.delivered
  /\ Falsy(response.err)
  /\ StatusIsOk(response.httpResponse)
  /\ ~response.body.wellFormed

\* C10: on a 200 with a malformed body the promise of the operation that
\* issued the request is rejected.
C10_ParseFailureRejects ==
  GotMalformed =>
    IF op \in DerivedOps THEN inner.state = "rejected" ELSE Rejected

\* ---------------------------------------------------------------------------
\* One request per invocation
\* ---------------------------------------------------------------------------

\* The operations of the current class: four that request, three derived.
PublicOps ==
  {"getAgencies", "getRoutes", "getRouteInfo", "getRouteStopPredictions"}
    \cup DerivedOps
\* The invocation is over: its callback has run and, for a derived operation
\* whose getRouteInfo settled, so has the handler given to .then().
Finished ==
  /\ response.delivered
  /\ op \in DerivedOps => (reacted \/ inner.state = "pending")

\* C11: from its invocation to its end, whether it succeeds or fails, every
\* public operation, direct or derived, has issued exactly one request.
C11_OneRequest == op \in PublicOps => Len(requests) = 1

\* A derived operation that ended in a failure, with its one request.
C11_Witness ==
  /\ op \in DerivedOps
  /\ Finished
  /\ Rejected
  /\ Len(requests) = 1

(***************************************************************************)
(* Several invocations in flight on the one exported instance.  Each call  *)
(* of calls has the state of one invocation; the steps of different calls  *)
(* interleave in any order.                                                *)
(***************************************************************************)
MaxCalls == 2
CallIds == 1..MaxCalls
IdleCall ==
  [op |-> "none", options |-> Options(Undefined, Undefined, Undefined, Undefined),
   requests |-> <<>>, response |-> NoResponse, inner |-> NoPromise,
   promise |-> NoPromise, thrown |-> <<>>, reacted |-> FALSE]

InitCalls ==
  /\ NoCall
  /\ statics = StaticConfiguration
  /\ calls = [c \in CallIds |-> IdleCall]
  /\ cli = NoCli

\* The documents the feed answers with here: a route whose two directions
\* reference its two stops, and predictions of one direction or none.
ConcurrentRouteBodies ==
  {XmlBody(BodyEl(<<RouteConfigEl(<<[tag |-> "5240"], [tag |-> "5650"]>>, dirs, 0)>>)) :
     dirs \in {<<[tag |-> "OB", refs |-> <<"5240", "5650">>],
                 [tag |-> "IB", refs |-> <<"5650", "5240">>]>>,
               <<[tag |-> "OB", refs |-> <<"5650", "5650">>],
                 [tag |-> "IB", refs |-> <<"5240", "5240">>]>>}}
ConcurrentPredictionBodies ==
  {XmlBody(BodyEl(<<>>)), XmlBody(BodyEl(<<PredictionsEl(<<<<"OB", "OB">>>>)>>))}

\* The options a call's handler sees: the parameter of its own invocation,
\* held by the closure.  (Before it: one slot that every invocation
\* overwrites, read as the options of the latest call.)
OptionsOf_LastInvoked(c) ==
  LET invoked == {d \in CallIds : calls[d].op # "none"}
  IN  calls[CHOOSE d \in invoked : \A e \in invoked : e <= d].options
OptionsOf(c) == calls[c].options

InvokeIn(c, name, opts, qs, derived) ==
  /\ calls' = [calls EXCEPT ![c] =
       [@ EXCEPT !.op = name, !.options = opts, !.requests = Append(@, qs),
                 !.promise = Pending,
                 !.inner = IF derived THEN Pending ELSE NoPromise]]
  /\ UNCHANGED <<call, statics, cli>>

getRouteInfoIn(c) ==
  /\ calls[c].op = "none"
  /\ \E a \in AgencyArgs, r \in RouteArgs :
       LET opts == Options(Str(a), Str(r), Undefined, Undefined)
       IN  InvokeIn(c, "getRouteInfo", opts, RouteInfoQs(opts), FALSE)

getRouteStopsByDirectionIn(c) ==
  /\ calls[c].op = "none"
  /\ \E a \in AgencyArgs, r \in RouteArgs, d \in DirectionArgs :
       LET opts == Options(Str(a), Str(r), Undefined, Str(d))
       IN  InvokeIn(c, "getRouteStopsByDirection", opts, RouteInfoQs(opts), TRUE)

getRouteStopPredictionsIn(c) ==
  /\ calls[c].op = "none"
  /\ \E a \in AgencyArgs, r \in RouteArgs, st \in StopArgs :
       LET opts == Options(Str(a), Str(r), Str(st), Undefined)
       IN  InvokeIn(c, "getRouteStopPredictions", opts, PredictionsQs(opts), FALSE)

AwaitingIn(c, name) == calls[c].op = name /\ ~calls[c].response.delivered
RespondIn(c, r, outcome) ==
  /\ calls' = [calls EXCEPT ![c] =
       [@ EXCEPT !.response = Delivered(r),
                 !.promise = Settle(@, outcome),
                 !.thrown = @ \o Raised(outcome)]]
  /\ UNCHANGED <<call, statics, cli>>

onRouteInfoIn(c) ==
  /\ AwaitingIn(c, "getRouteInfo")
  /\ \E r \in Responses(ConcurrentRouteBodies) :
       RespondIn(c, r, getRouteInfoCallback(r))

onPredictionsIn(c) ==
  /\ AwaitingIn(c, "getRouteStopPredictions")
  /\ \E r \in Responses(ConcurrentPredictionBodies) :
       RespondIn(c, r, getRouteStopPredictionsCallback(r))

onDerivedRouteInfoIn(c) ==
  /\ AwaitingIn(c, "getRouteStopsByDirection")
  /\ \E r \in Responses(ConcurrentRouteBodies) :
       /\ calls' = [calls EXCEPT ![c] =
            [@ EXCEPT !.response = Delivered(r),
                      !.inner = Settle(@, getRouteInfoCallback(r)),
                      !.thrown = @ \o Raised(getRouteInfoCallback(r))]]
       /\ UNCHANGED <<call, statics, cli>>

thenRouteStopsByDirectionIn(c) ==
  /\ calls[c].op = "getRouteStopsByDirection"
  /\ calls[c].inner.state \in {"resolved", "rejected"}
  /\ ~calls[c].reacted
  /\ LET outcome == IF calls[c].inner.state = "resolved"
                      THEN getRouteStopsByDirectionThen(calls[c].inner.value, OptionsOf(c))
                      ELSE Reject(calls[c].inner.value)
     IN  /\ calls' = [calls EXCEPT ![c] =
              [@ EXCEPT !.reacted = TRUE,
                        !.promise = Settle(@, outcome),
                        !.thrown = @ \o Raised(outcome)]]
         /\ UNCHANGED <<call, statics, cli>>

NextCalls ==
  \/ \E c \in CallIds : getRouteInfoIn(c)
  \/ \E c \in CallIds : getRouteStopsByDirectionIn(c)
  \/ \E c \in CallIds : getRouteStopPredictionsIn(c)
  \/ \E c \in CallIds : onRouteInfoIn(c)
  \/ \E c \in CallIds : onPredictionsIn(c)
  \/ \E c \in CallIds : onDerivedRouteInfoIn(c)
  \/ \E c \in CallIds : thenRouteStopsByDirectionIn(c)

SpecCalls == InitCalls /\ [][NextCalls]_vars

\* What a call comes to when it is followed by itself: the callback of its
\* operation applied to its own response, then its handler applied to its
\* own route detail and its own options.
OwnCallback(k) ==
  IF k.op = "getRouteStopPredictions"
    THEN getRouteStopPredictionsCallback(k.response)
    ELSE getRouteInfoCallback(k.response)
OwnHandler(k) ==
  IF k.inner.state = "resolved"
    THEN getRouteStopsByDirectionThen(k.inner.value, k.options)
    ELSE Reject(k.inner.value)
OwnRequest(k) ==
  IF k.op = "getRouteStopPredictions"
    THEN PredictionsQs(k.options) ELSE RouteInfoQs(k.options)
ByItsOwnPair(k) ==
  IF k.op = "none" THEN k = IdleCall
  ELSE /\ k.requests = <<OwnRequest(k)>>
       /\ IF ~k.response.delivered
            THEN k.promise = Pending /\ ~k.reacted
          ELSE IF k.op = "getRouteStopsByDirection"
            THEN /\ k.inner = Settle(Pending, getRouteInfoCallback(k.response))
                 /\ k.promise = IF k.reacted THEN Settle(Pending, OwnHandler(k))
                                ELSE Pending
          ELSE k.promise = Settle(Pending, OwnCallback(k))
\* The stop tags a direction of a routeConfig document references, and the
\* tags of the stops a call resolved with.
RefsOfDirection(body, d) ==
  LET route == Children(body.root, "route")[1]
      refs == Children(Tagged(Children(route, "direction"), d)[1], "stop")
  IN  [i \in 1..Len(refs) |-> Str(refs[i].attrs.tag)]
TagsOf(v) == [i \in 1..Len(v.items) |-> Prop(v.items[i], "tag")]
StopsOfOwnDirection(k) ==
  (/\ k.op = "getRouteStopsByDirection"
   /\ k.reacted
   /\ k.inner.state = "resolved") =>
     /\ k.promise.state = "resolved"
     /\ IsArray(k.promise.value)
     /\ TagsOf(k.promise.value) = RefsOfDirection(k.response.body, k.options.direction.str)

\* C12: with several operations in flight on the shared instance, their
\* requests answered and their callbacks and handlers run in any
\* interleaving, every call is where its own request and response alone put
\* it (getRouteStopsByDirection resolves with the stops of the direction its
\* own caller asked for), and the static configuration and the instance are
\* what they were at construction.
C12_CallsIndependent ==
  /\ statics = StaticConfiguration
  /\ \A c \in CallIds : ByItsOwnPair(calls[c]) /\ StopsOfOwnDirection(calls[c])

\* Two getRouteStopsByDirection calls for different directions, the second
\* resolved with its stops between the callback and the handler of the first.
C12_Witness ==
  /\ calls[1].op = "getRouteStopsByDirection"
  /\ calls[2].op = "getRouteStopsByDirection"
  /\ calls[1].options.direction # calls[2].options.direction
  /\ calls[1].inner.state = "resolved" /\ ~calls[1].reacted
  /\ calls[2].promise.state = "resolved"
  /\ TagsOf(calls[2].promise.value) =
       RefsOfDirection(calls[2].response.body, calls[2].options.direction.str)
  /\ TagsOf(calls[2].promise.value) #
       RefsOfDirection(calls[1].response.body, calls[1].options.direction.str)

(***************************************************************************)
(* bin/cli.js: the command line is read, inquirer asks the questions whose *)
(* `when` holds, in the order they are listed, and the predictions of the  *)
(* chosen stop are fetched and printed.                                    *)
(***************************************************************************)
Questions == <<"agency", "route", "direction", "stop">>
Short == [agency |-> "a", route |-> "r", direction |-> "d", stop |-> "s"]
Place ==
  [agency |-> 1, route |-> 2, direction |-> 3, stop |-> 4, query |-> 5,
   report |-> 6, exit |-> 7]

\* What yargs.argv holds under a key: nothing, the text that followed the
\* option, or the number yargs makes of a text of digits (`--route 0`).
ArgvTags == [agency |-> "sf-muni", route |-> "N", direction |-> "OB", stop |-> "5240"]
ArgvValues(q) == {Undefined, Num(0), Str(ArgvTags[q])}
\* The command lines: an identifier is given by its short option, by its
\* long one, or not at all.
CommandLines ==
  {argv \in [{"a", "agency", "r", "route", "d", "direction", "s", "stop"} ->
               {Undefined, Num(0)} \cup {Str(ArgvTags[q]) : q \in DOMAIN ArgvTags}] :
     \A q \in DOMAIN Short :
       /\ argv[Short[q]] \in ArgvValues(q)
       /\ argv[q] \in ArgvValues(q)
       /\ argv[Short[q]] = Undefined \/ argv[q] = Undefined}

\* a || b
JsOr(a, b) == IF Falsy(a) THEN b ELSE a
\* const argvAgency = yargs.argv.a || yargs.argv.agency, and the like.
Argv(q) == JsOr(cli.argv[Short[q]], cli.argv[q])
\* answers.agency || argvAgency, and the like.
Chosen(q) == JsOr(cli.answers[q], Argv(q))

\* The tags of the entities a listing operation of the library resolves
\* with, offered as the choices of a question.
Listed ==
  [agency |-> AgencyTags, route |-> RouteTags, direction |-> DirTags,
   stop |-> StopTags]
\* The minutes of the predictions the library resolves with.
PredictedMinutes == {<<>>, <<"3", "12">>}

AfterQuestion(q) ==
  CASE q = "agency" -> "route"
    [] q = "route" -> "direction"
    [] q = "direction" -> "stop"
    [] q = "stop" -> "query"

run ==
  /\ cli.pc = "none"
  /\ \E argv \in CommandLines :
       cli' = [pc |-> "agency", argv |-> argv,
               answers |-> [q \in DOMAIN Short |-> Undefined],
               prompted |-> <<>>, choosing |-> FALSE, hung |-> FALSE,
               lookups |-> <<>>, output |-> ""]
  /\ UNCHANGED <<call, statics, calls>>

\* A question: skipped when its `when` is false, otherwise its choices()
\* calls the listing operation.
Question(q, lookup) ==
  /\ cli.pc = q
  /\ ~cli.choosing
  /\ IF Falsy(Argv(q))
       THEN cli' = [cli EXCEPT !.choosing = TRUE,
                               !.prompted = Append(@, q),
                               !.lookups = Append(@, lookup)]
       ELSE cli' = [cli EXCEPT !.pc = AfterQuestion(q)]
  /\ UNCHANGED <<call, statics, calls>>

agencyQuestion ==
  /\ cli.pc = "agency"
  /\ Question("agency", [name |-> "getAgencies", args |-> <<>>])

routeQuestion ==
  /\ cli.pc = "route"
  /\ Question("route", [name |-> "getRoutes",
                        args |-> [agency |-> Chosen("agency")]])

directionQuestion ==
  /\ cli.pc = "direction"
  /\ Question("direction", [name |-> "getDirections",
                            args |-> [agency |-> Chosen("agency"),
                                      route |-> Chosen("route")]])

stopQuestion ==
  /\ cli.pc = "stop"
  /\ Question("stop", [name |-> "getStopsByDirection",
                       args |-> [agency |-> Chosen("agency"),
                                 route |-> Chosen("route"),
                                 direction |-> Chosen("direction")]])

\* The listing resolved: the choices are shown and the user picks one.
answer ==
  /\ cli.pc \in DOMAIN Short
  /\ cli.choosing
  /\ ~cli.hung
  /\ \E t \in Listed[cli.pc] :
       cli' = [cli EXCEPT !.answers[cli.pc] = Str(t),
                          !.choosing = FALSE,
                          !.pc = AfterQuestion(cli.pc)]
  /\ UNCHANGED <<call, statics, calls>>

\* The listing was rejected: choices() has no handler for it, its promise
\* stays pending and the question is never shown.
listingFails ==
  /\ cli.pc \in DOMAIN Short
  /\ cli.choosing
  /\ ~cli.hung
  /\ cli' = [cli EXCEPT !.hung = TRUE]
  /\ UNCHANGED <<call, statics, calls>>

\* .then(answers => nextBus.getStopPredictions({agency, route, stop}))
query ==
  /\ cli.pc = "query"
  /\ cli' = [cli EXCEPT !.pc = "report",
                        !.lookups = Append(@, [name |-> "getStopPredictions",
                                               args |-> [agency |-> Chosen("agency"),
                                                         route |-> Chosen("route"),
                                                         stop |-> Chosen("stop")]])]
  /\ UNCHANGED <<call, statics, calls>>

\* .then(predictions => console.log(...))
report ==
  /\ cli.pc = "report"
  /\ \E minutes \in PredictedMinutes :
       cli' = [cli EXCEPT !.pc = "exit",
                          !.output = IF Len(minutes) # 0
                                       THEN "Minutes remaining: " \o minutes[1] \o ", " \o minutes[2]
                                       ELSE "None in transit"]
  /\ UNCHANGED <<call, statics, calls>>

InitCli ==
  /\ NoCall
  /\ statics = StaticConfiguration
  /\ calls = NoCalls
  /\ cli = NoCli

NextCli ==
  \/ run
  \/ agencyQuestion
  \/ routeQuestion
  \/ directionQuestion
  \/ stopQuestion
  \/ answer
  \/ listingFails
  \/ query
  \/ report

SpecCli == InitCli /\ [][NextCli]_vars

\* The identifier was given on the command line, and the value given.
Given(q) == cli.argv[Short[q]] # Undefined \/ cli.argv[q] # Undefined
GivenValue(q) == IF cli.argv[Short[q]] # Undefined THEN cli.argv[Short[q]] ELSE cli.argv[q]
\* The question has been reached (asked or skipped), and asked.
Reached(q) ==
  /\ cli.pc # "none"
  /\ Place[cli.pc] > Place[q] \/ (cli.pc = q /\ cli.choosing)
Prompted(q) == \E i \in 1..Len(cli.prompted) : cli.prompted[i] = q

\* C13: in the CLI, the prompt of agency, route, direction or stop is
\* skipped exactly when the identifier was given on the command line; the
\* prompts that run do so in the order agency, route, direction, stop; and
\* every listing and the prediction query are called with the value given
\* where the prompt was skipped and with the answer otherwise.
C13_PromptsSkippedWhenSupplied ==
  cli.pc # "none" =>
    /\ \A q \in DOMAIN Short : Reached(q) => (Prompted(q) <=> ~Given(q))
    /\ \A i, j \in 1..Len(cli.prompted) :
         i < j => Place[cli.prompted[i]] < Place[cli.prompted[j]]
    /\ \A i \in 1..Len(cli.lookups) :
         \A q \in DOMAIN cli.lookups[i].args :
           cli.lookups[i].args[q] =
             IF Prompted(q) THEN cli.answers[q] ELSE GivenValue(q)

\* ---------------------------------------------------------------------------
\* Settling
\* ---------------------------------------------------------------------------

Settled == promise.state \in {"resolved", "rejected"}
\* The request of the operation has completed and nothing of the operation
\* is left to run: no callback, no handler.
RanToEnd == op # "none" /\ response.delivered /\ ~ENABLED Next

\* C14: once its request has completed, with a network error, a status other
\* than 200 or a 200 response of any shape, the promise an operation returned
\* is settled by the time nothing of the operation is left to run, and a
\* settled promise stays as it settled (resolved or rejected, never both);
\* for the requesting operations and the derived ones.
C14_SettlesOnce ==
  /\ [](RanToEnd => Settled)
  /\ [][Settled => promise' = promise]_vars

\* ---------------------------------------------------------------------------
\* Failure of the underlying getRouteInfo
\* ---------------------------------------------------------------------------

\* The getRouteInfo a derived operation called was rejected, and the derived
\* operation has reacted to it.
RouteInfoFailed == op \in DerivedOps /\ inner.state = "rejected" /\ reacted

\* C15: when the getRouteInfo it called fails, a derived operation
\* (getRouteStops, getRouteDirections, getRouteStopsByDirection) is rejected
\* with the very error getRouteInfo was rejected with, and its handler has
\* not run: no scan of the directions, no lookup of the stops, nothing
\* thrown by them.
C15_RouteInfoFailurePropagates ==
  RouteInfoFailed =>
    /\ Rejected
    /\ promise.value = inner.value
    /\ promise.value # DirectionNotFound
    /\ thrown = <<>>

\* getRouteStopsByDirection rejected with the message of a non-200 answer.
C15_Witness ==
  /\ op = "getRouteStopsByDirection"
  /\ RouteInfoFailed
  /\ Rejected
  /\ promise.value = SomethingWentWrong

\* ---------------------------------------------------------------------------
\* The parameters of a request
\* ---------------------------------------------------------------------------

\* The query string of the request an invocation issued.
Sent == requests[1]

\* C16: the request of an operation carries the command of the operation
\* and, with the values of the caller's options, exactly the parameters of
\* that command: agencyList none, routeList `a`, routeConfig `a` and `r`,
\* predictions `a`, `r` and `s`; the direction is in no request.
C16_RequestParameters ==
  op # "none" =>
    /\ op = "getAgencies" => Sent = [command |-> "agencyList"]
    /\ op = "getRoutes" => Sent = [command |-> "routeList", a |-> options.agency]
    /\ op \in {"getRouteInfo"} \cup DerivedOps =>
         Sent = [command |-> "routeConfig", a |-> options.agency, r |-> options.route]
    /\ op \in {"getRouteStopPredictions", "getRouteStopPredictionsByDirection"} =>
         Sent = [command |-> "predictions", a |-> options.agency,
                 r |-> options.route, s |-> options.stop]
    /\ DOMAIN Sent \subseteq {"command", "a", "r", "s"}
    /\ \A k \in DOMAIN Sent \ {"command"} :
         Sent[k].kind = "string" /\ Sent[k] # options.direction

\* getRouteStopsByDirection called for a direction, its request without it.
C16_Witness ==
  /\ op = "getRouteStopsByDirection"
  /\ options.direction = Str("OB")
  /\ requests = <<[command |-> "routeConfig", a |-> Str("sf-muni"), r |-> Str("N")]>>

====
